---- MODULE Spec2Model ----
(***************************************************************************)
(* Model of lambda_handler (src/lambda_function.py): one HTTP-style        *)
(* invocation checks its configuration, parses and validates the request   *)
(* body, generates a task id, runs the research agent, writes the report   *)
(* to the object store and a status record to the metadata store.          *)
(* Several invocations run concurrently and share only the two stores.     *)
(*                                                                         *)
(* Python strings are sequences of string chunks (so that f-strings and    *)
(* prefixes can be computed); JSON texts are sequences of lexemes.         *)
(***************************************************************************)
EXTENDS Integers, Sequences, FiniteSets, TLC

\* Number of concurrent invocations of the handler.
NumInv == 2

Inv == 1 .. NumInv

(***************************************************************************)
(* Python values                                                           *)
(***************************************************************************)
PyNone == [t |-> "None"]
PyBool(b) == [t |-> "bool", b |-> b]
PyInt(n) == [t |-> "int", n |-> n]
PyStr(s) == [t |-> "str", s |-> s]
PyList(xs) == [t |-> "list", items |-> xs]
PyDict(kvs) == [t |-> "dict", items |-> kvs]
\* A str holding JSON text, as the sequence of its lexemes.
PyText(toks) == [t |-> "text", toks |-> toks]

\* Python truth value testing, as used by `not x`.
Truthy(v) ==
    CASE v.t = "None" -> FALSE
      [] v.t = "bool" -> v.b
      [] v.t = "int" -> v.n # 0
      [] v.t = "str" -> Len(v.s) > 0
      [] v.t = "text" -> Len(v.toks) > 0
      [] v.t = "list" -> Len(v.items) > 0
      [] v.t = "dict" -> Len(v.items) > 0

\* dict.get(key, default): the value of the last binding of key.
RECURSIVE DictLookup(_, _, _, _)
DictLookup(kvs, n, key, default) ==
    IF n = 0 THEN default
    ELSE IF kvs[n][1] = key THEN kvs[n][2]
    ELSE DictLookup(kvs, n - 1, key, default)

DictGet(d, key, default) == DictLookup(d.items, Len(d.items), key, default)

\* d[key] = val on a dict under construction: a repeated key is rebound.
DictSet(kvs, key, val) ==
    IF \E j \in 1 .. Len(kvs) : kvs[j][1] = key
    THEN [j \in 1 .. Len(kvs) |-> IF kvs[j][1] = key THEN <<key, val>> ELSE kvs[j]]
    ELSE Append(kvs, <<key, val>>)

(***************************************************************************)
(* JSON lexemes, json.loads and json.dumps                                 *)
(***************************************************************************)
Lex(k) == [k |-> k, s |-> <<>>, n |-> 0]
LBrace == Lex("{")
RBrace == Lex("}")
LBrack == Lex("[")
RBrack == Lex("]")
Colon == Lex(":")
Comma == Lex(",")
LNull == Lex("null")
LTrue == Lex("true")
LFalse == Lex("false")
LStr(s) == [k |-> "str", s |-> s, n |-> 0]
LNum(n) == [k |-> "num", s |-> <<>>, n |-> n]

Fail == [ok |-> FALSE, val |-> PyNone, next |-> 0]
Got(v, i) == [ok |-> TRUE, val |-> v, next |-> i]

\* The JSON decoder: ParseValue(toks, i) decodes the value that starts at
\* lexeme i and returns it with the index of the lexeme after it.
RECURSIVE ParseValue(_, _), ParseElems(_, _, _), ParseMembers(_, _, _)
ParseValue(toks, i) ==
    IF i > Len(toks) THEN Fail
    ELSE LET tk == toks[i] IN
         CASE tk.k = "null" -> Got(PyNone, i + 1)
           [] tk.k = "true" -> Got(PyBool(TRUE), i + 1)
           [] tk.k = "false" -> Got(PyBool(FALSE), i + 1)
           [] tk.k = "num" -> Got(PyInt(tk.n), i + 1)
           [] tk.k = "str" -> Got(PyStr(tk.s), i + 1)
           [] tk.k = "[" ->
                IF i + 1 <= Len(toks) /\ toks[i + 1].k = "]"
                THEN Got(PyList(<<>>), i + 2)
                ELSE ParseElems(toks, i + 1, <<>>)
           [] tk.k = "{" ->
                IF i + 1 <= Len(toks) /\ toks[i + 1].k = "}"
                THEN Got(PyDict(<<>>), i + 2)
                ELSE ParseMembers(toks, i + 1, <<>>)
           [] OTHER -> Fail

ParseElems(toks, i, acc) ==
    LET r == ParseValue(toks, i) IN
    IF ~r.ok \/ r.next > Len(toks) THEN Fail
    ELSE IF toks[r.next].k = "]" THEN Got(PyList(Append(acc, r.val)), r.next + 1)
    ELSE IF toks[r.next].k = "," THEN ParseElems(toks, r.next + 1, Append(acc, r.val))
    ELSE Fail

ParseMembers(toks, i, acc) ==
    IF i + 1 > Len(toks) \/ toks[i].k # "str" \/ toks[i + 1].k # ":" THEN Fail
    ELSE LET r == ParseValue(toks, i + 2) IN
         IF ~r.ok \/ r.next > Len(toks) THEN Fail
         ELSE LET kvs == DictSet(acc, toks[i].s, r.val) IN
              IF toks[r.next].k = "}" THEN Got(PyDict(kvs), r.next + 1)
              ELSE IF toks[r.next].k = "," THEN ParseMembers(toks, r.next + 1, kvs)
              ELSE Fail

\* json.loads(v): [exc |-> "" , val |-> value] or the exception raised.
\* A non-str argument raises TypeError; text that is not one JSON value
\* (also: followed by extra data) raises JSONDecodeError.
json_loads(v) ==
    IF v.t # "text" THEN [exc |-> "TypeError", val |-> PyNone]
    ELSE LET r == ParseValue(v.toks, 1) IN
         IF r.ok /\ r.next = Len(v.toks) + 1
         THEN [exc |-> "", val |-> r.val]
         ELSE [exc |-> "JSONDecodeError", val |-> PyNone]

\* json.dumps of a dict whose keys and values are str.
RECURSIVE DumpMembers(_, _)
DumpMembers(kvs, i) ==
    IF i > Len(kvs) THEN <<>>
    ELSE (IF i > 1 THEN <<Comma>> ELSE <<>>)
         \o <<LStr(kvs[i][1]), Colon, LStr(kvs[i][2].s)>>
         \o DumpMembers(kvs, i + 1)

json_dumps(d) == PyText(<<LBrace>> \o DumpMembers(d.items, 1) \o <<RBrace>>)

(***************************************************************************)
(* str.encode('utf-8') on a sequence of code points                        *)
(***************************************************************************)
EncodeCodePoint(cp) ==
    IF cp < 128 THEN <<cp>>
    ELSE IF cp < 2048 THEN <<192 + (cp \div 64), 128 + (cp % 64)>>
    ELSE <<224 + (cp \div 4096), 128 + ((cp \div 64) % 64), 128 + (cp % 64)>>

RECURSIVE encode_utf8(_)
encode_utf8(cps) ==
    IF cps = <<>> THEN <<>>
    ELSE EncodeCodePoint(Head(cps)) \o encode_utf8(Tail(cps))

(***************************************************************************)
(* Inputs                                                                  *)
(***************************************************************************)
\* What os.environ.get can give for one variable: unset, empty, or a value.
EnvValues(val) == {PyNone, PyStr(<<>>), PyStr(<<val>>)}

Environments ==
    [GOOGLE_API_KEY : EnvValues("google-key"),
     SERPAPI_API_KEY : EnvValues("serpapi-key"),
     S3_BUCKET_NAME : EnvValues("research-bucket"),
     DYNAMODB_TABLE_NAME : EnvValues("research-table")]

Obj(members) == PyText(<<LBrace>> \o members \o <<RBrace>>)
Topic == LStr(<<"topic">>)
Coral == LStr(<<"coral bleaching">>)

\* Request bodies that json.loads rejects.
MalformedBodies ==
    {PyText(<<>>),
     Obj(<<Topic, Coral>>),
     PyText(<<LBrace, Topic, Colon, Coral, RBrace, RBrace>>)}

\* Request bodies that decode to something other than an object.
NonObjectBodies ==
    {PyText(<<LNull>>), PyText(<<LBrack, Coral, RBrack>>)}

\* Objects whose "topic" is missing or falsy.
NoTopicBodies ==
    {Obj(<<LStr(<<"subject">>), Colon, Coral>>),
     Obj(<<Topic, Colon, LStr(<<>>)>>),
     Obj(<<Topic, Colon, Coral, Comma, Topic, Colon, LNum(0)>>)}

\* Objects with a usable "topic".
TopicBodies ==
    {Obj(<<LStr(<<"lang">>), Colon, LStr(<<"en">>), Comma, Topic, Colon, Coral>>)}

Bodies == MalformedBodies \cup NonObjectBodies \cup NoTopicBodies \cup TopicBodies

\* The event of one invocation: no "body" key, a null body, or a str body.
Events ==
    {PyDict(<<>>), PyDict(<< <<<<"body">>, PyNone>> >>)}
    \cup {PyDict(<< <<<<"body">>, b>> >>) : b \in Bodies}

\* Final answers of the agent, as sequences of code points.
Reports == {<<82, 233>>, <<8364>>}

\* Values uuid.uuid4() can return.
Digits == <<"1", "2", "3", "4", "5", "6", "7", "8", "9">>
UUIDs == {<<"uuid-", Digits[n]>> : n \in 1 .. NumInv}

(***************************************************************************)
(* State                                                                   *)
(***************************************************************************)
VARIABLES
    environ,         \* the four module-level configuration values
    pc,              \* pc[i]: where invocation i is in lambda_handler
    event,           \* event[i]: the event invocation i was called with
    research_topic,  \* locals of invocation i
    task_id,
    final_report,
    exc,             \* exc[i]: the exception the handler of i caught
    result,          \* result[i]: what lambda_handler returned or raised
    calls,           \* calls[i]: the external calls invocation i has made
    s3,              \* object store: <<Bucket, Key>> -> object
    table,           \* metadata store: task_id -> item
    issued           \* the uuids generated so far

vars == <<environ, pc, event, research_topic, task_id, final_report, exc,
          result, calls, s3, table, issued>>

Unset == [t |-> "unset"]
NoResult == [kind |-> "none", statusCode |-> 0, body |-> PyNone, exc |-> ""]
Return(code, dict) ==
    [kind |-> "return", statusCode |-> code, body |-> json_dumps(dict), exc |-> ""]
Raise(e) == [kind |-> "raise", statusCode |-> 0, body |-> PyNone, exc |-> e]

ErrorDict(msg) == PyDict(<< <<<<"error">>, PyStr(msg)>> >>)

Init ==
    /\ environ \in Environments
    /\ pc = [i \in Inv |-> "idle"]
    /\ event = [i \in Inv |-> Unset]
    /\ research_topic = [i \in Inv |-> Unset]
    /\ task_id = [i \in Inv |-> <<>>]
    /\ final_report = [i \in Inv |-> <<>>]
    /\ exc = [i \in Inv |-> ""]
    /\ result = [i \in Inv |-> NoResult]
    /\ calls = [i \in Inv |-> <<>>]
    /\ s3 = <<>>
    /\ table = <<>>
    /\ issued = {}

(***************************************************************************)
(* lambda_handler, lines 21-46: configuration check, request validation,   *)
(* task id                                                                 *)
(***************************************************************************)
\* Mutant: the check of DYNAMODB_TABLE_NAME is forgotten.
ConfigError_SkipsTableName(env) ==
    IF ~Truthy(env.GOOGLE_API_KEY)
    THEN Return(500, ErrorDict(<<"Server configuration error: ", "Missing Google API Key.">>))
    ELSE IF ~Truthy(env.SERPAPI_API_KEY)
    THEN Return(500, ErrorDict(<<"Server configuration error: ", "Missing SerpApi API Key.">>))
    ELSE IF ~Truthy(env.S3_BUCKET_NAME)
    THEN Return(500, ErrorDict(<<"Server configuration error: ", "Missing AWS resource names.">>))
    ELSE NoResult

ConfigError(env) ==
    IF ~Truthy(env.GOOGLE_API_KEY)
    THEN Return(500, ErrorDict(<<"Server configuration error: ", "Missing Google API Key.">>))
    ELSE IF ~Truthy(env.SERPAPI_API_KEY)
    THEN Return(500, ErrorDict(<<"Server configuration error: ", "Missing SerpApi API Key.">>))
    ELSE IF ~Truthy(env.S3_BUCKET_NAME) \/ ~Truthy(env.DYNAMODB_TABLE_NAME)
    THEN Return(500, ErrorDict(<<"Server configuration error: ", "Missing AWS resource names.">>))
    ELSE NoResult

\* Mutant: the first try block has no except clause for JSONDecodeError.
ValidateRequest_NoExcept(ev) ==
    LET parsed == json_loads(DictGet(ev, <<"body">>, PyText(<<LBrace, RBrace>>)))
    IN  IF parsed.exc # ""
        THEN [res |-> Raise(parsed.exc), topic |-> Unset]
        ELSE IF parsed.val.t # "dict"
        THEN [res |-> Raise("AttributeError"), topic |-> Unset]
        ELSE LET topic == DictGet(parsed.val, <<"topic">>, PyNone) IN
             IF ~Truthy(topic)
             THEN [res |-> Return(400, ErrorDict(<<"Missing \"topic\" in request body.">>)),
                   topic |-> topic]
             ELSE [res |-> NoResult, topic |-> topic]

\* The first try block. A result of kind "none" means the topic was found.
ValidateRequest(ev) ==
    LET parsed == json_loads(DictGet(ev, <<"body">>, PyText(<<LBrace, RBrace>>)))
    IN  IF parsed.exc = "JSONDecodeError"
        THEN [res |-> Return(400, ErrorDict(<<"Invalid JSON in request body.">>)),
              topic |-> Unset]
        ELSE IF parsed.exc # ""
        THEN [res |-> Raise(parsed.exc), topic |-> Unset]
        ELSE IF parsed.val.t # "dict"
        THEN [res |-> Raise("AttributeError"), topic |-> Unset]
        ELSE LET topic == DictGet(parsed.val, <<"topic">>, PyNone) IN
             IF ~Truthy(topic)
             THEN [res |-> Return(400, ErrorDict(<<"Missing \"topic\" in request body.">>)),
                   topic |-> topic]
             ELSE [res |-> NoResult, topic |-> topic]

\* Mutant: the task id can repeat one generated before.
uuid4_Repeating == UUIDs

\* uuid.uuid4(): a value not generated before.
uuid4 == UUIDs \ issued

Finish(i, res) ==
    /\ pc' = [pc EXCEPT ![i] = "done"]
    /\ result' = [result EXCEPT ![i] = res]

Receive(i, ev) ==
    /\ pc[i] = "idle"
    /\ event' = [event EXCEPT ![i] = ev]
    /\ LET cfg == ConfigError(environ)
           req == ValidateRequest(ev)
       IN  IF cfg.kind # "none"
           THEN /\ Finish(i, cfg)
                /\ UNCHANGED <<research_topic, task_id, issued>>
           ELSE IF req.res.kind # "none"
           THEN /\ Finish(i, req.res)
                /\ research_topic' = [research_topic EXCEPT ![i] = req.topic]
                /\ UNCHANGED <<task_id, issued>>
           ELSE \E u \in uuid4 :
                  /\ research_topic' = [research_topic EXCEPT ![i] = req.topic]
                  /\ task_id' = [task_id EXCEPT ![i] = u]
                  /\ issued' = issued \cup {u}
                  /\ pc' = [pc EXCEPT ![i] = "task_started"]
                  /\ UNCHANGED result
    /\ UNCHANGED <<environ, final_report, exc, calls, s3, table>>

(***************************************************************************)
(* lambda_handler, lines 49-109: the second try block                      *)
(***************************************************************************)
Call(op, ok) == [op |-> op, ok |-> ok]
Log(i, op, ok) == calls' = [calls EXCEPT ![i] = Append(@, Call(op, ok))]

\* An exception in the try block transfers control to the except clause.
Except(i, e) ==
    /\ exc' = [exc EXCEPT ![i] = e]
    /\ pc' = [pc EXCEPT ![i] = "except"]

\* Lines 50-66: ChatGoogleGenerativeAI, SerpAPIWrapper, initialize_agent.
BuildAgent(i) ==
    /\ pc[i] = "task_started"
    /\ Log(i, "initialize_agent", TRUE)
    /\ pc' = [pc EXCEPT ![i] = "agent_built"]
    /\ UNCHANGED <<environ, event, research_topic, task_id, final_report, exc,
                   result, s3, table, issued>>

BuildAgentRaises(i) ==
    /\ pc[i] = "task_started"
    /\ Log(i, "initialize_agent", FALSE)
    /\ Except(i, "initialize_agent")
    /\ UNCHANGED <<environ, event, research_topic, task_id, final_report,
                   result, s3, table, issued>>

\* Line 78: agent.run(prompt) returns the final report.
RunAgent(i, report) ==
    /\ pc[i] = "agent_built"
    /\ Log(i, "agent.run", TRUE)
    /\ final_report' = [final_report EXCEPT ![i] = report]
    /\ pc' = [pc EXCEPT ![i] = "agent_ran"]
    /\ UNCHANGED <<environ, event, research_topic, task_id, exc, result, s3,
                   table, issued>>

RunAgentRaises(i) ==
    /\ pc[i] = "agent_built"
    /\ Log(i, "agent.run", FALSE)
    /\ Except(i, "agent.run")
    /\ UNCHANGED <<environ, event, research_topic, task_id, final_report,
                   result, s3, table, issued>>

\* datetime.datetime.utcnow().isoformat(): the reading is not modelled.
utcnow_isoformat == "utcnow().isoformat()"

\* Line 80: s3_file_key = f"reports/{task_id}.txt"
s3_file_key(tid) == <<"reports/">> \o tid \o <<".txt">>

Put(store, key, val) ==
    [k \in DOMAIN store \cup {key} |-> IF k = key THEN val ELSE store[k]]

\* Mutant: the object is written under a key without the ".txt" suffix.
PutObject_WrongKey(i) ==
    /\ pc[i] = "agent_ran"
    /\ Log(i, "s3.put_object", TRUE)
    /\ s3' = Put(s3, <<environ.S3_BUCKET_NAME.s, <<"reports/">> \o task_id[i]>>,
                 [Body |-> encode_utf8(final_report[i]), ContentType |-> "text/plain"])
    /\ pc' = [pc EXCEPT ![i] = "report_saved"]
    /\ UNCHANGED <<environ, event, research_topic, task_id, final_report, exc,
                   result, table, issued>>

\* Lines 81-86: s3_client.put_object.
PutObject(i) ==
    /\ pc[i] = "agent_ran"
    /\ Log(i, "s3.put_object", TRUE)
    /\ s3' = Put(s3, <<environ.S3_BUCKET_NAME.s, s3_file_key(task_id[i])>>,
                 [Body |-> encode_utf8(final_report[i]), ContentType |-> "text/plain"])
    /\ pc' = [pc EXCEPT ![i] = "report_saved"]
    /\ UNCHANGED <<environ, event, research_topic, task_id, final_report, exc,
                   result, table, issued>>

\* Mutant: put_object raises although the object was stored.
PutObjectRaises_AfterWrite(i) ==
    /\ pc[i] = "agent_ran"
    /\ Log(i, "s3.put_object", FALSE)
    /\ s3' = Put(s3, <<environ.S3_BUCKET_NAME.s, s3_file_key(task_id[i])>>,
                 [Body |-> encode_utf8(final_report[i]), ContentType |-> "text/plain"])
    /\ Except(i, "s3.put_object")
    /\ UNCHANGED <<environ, event, research_topic, task_id, final_report,
                   result, table, issued>>

PutObjectRaises(i) ==
    /\ pc[i] = "agent_ran"
    /\ Log(i, "s3.put_object", FALSE)
    /\ Except(i, "s3.put_object")
    /\ UNCHANGED <<environ, event, research_topic, task_id, final_report,
                   result, s3, table, issued>>

\* Mutant: the COMPLETED item lacks the report key.
CompletedItem_NoReportKey(i) ==
    [task_id |-> task_id[i],
     research_topic |-> research_topic[i],
     status |-> "COMPLETED",
     completed_at |-> utcnow_isoformat]

\* Lines 91-97: the item of a completed task.
CompletedItem(i) ==
    [task_id |-> task_id[i],
     research_topic |-> research_topic[i],
     s3_report_key |-> s3_file_key(task_id[i]),
     status |-> "COMPLETED",
     completed_at |-> utcnow_isoformat]

\* Lines 101-109: the response of a completed task.
SuccessResponse(i) ==
    Return(200, PyDict(<<
        <<<<"message">>, PyStr(<<"Research task completed successfully!">>)>>,
        <<<<"task_id">>, PyStr(task_id[i])>>,
        <<<<"s3_bucket">>, environ.S3_BUCKET_NAME>>,
        <<<<"s3_key">>, PyStr(s3_file_key(task_id[i]))>> >>))

\* Mutant: a statement after the successful put_item raises, so the except
\* clause runs although the COMPLETED item is written.
PutItemCompleted_ThenRaises(i) ==
    /\ pc[i] = "report_saved"
    /\ Log(i, "dynamodb.put_item", TRUE)
    /\ table' = Put(table, task_id[i], CompletedItem(i))
    /\ Except(i, "return")
    /\ UNCHANGED <<environ, event, research_topic, task_id, final_report,
                   result, s3, issued>>

\* Lines 89-109: table.put_item of the COMPLETED item, then return 200.
PutItemCompleted(i) ==
    /\ pc[i] = "report_saved"
    /\ Log(i, "dynamodb.put_item", TRUE)
    /\ table' = Put(table, task_id[i], CompletedItem(i))
    /\ Finish(i, SuccessResponse(i))
    /\ UNCHANGED <<environ, event, research_topic, task_id, final_report, exc,
                   s3, issued>>

PutItemCompletedRaises(i) ==
    /\ pc[i] = "report_saved"
    /\ Log(i, "dynamodb.put_item", FALSE)
    /\ Except(i, "dynamodb.put_item")
    /\ UNCHANGED <<environ, event, research_topic, task_id, final_report,
                   result, s3, table, issued>>

(***************************************************************************)
(* lambda_handler, lines 111-130: the except clause                        *)
(***************************************************************************)
\* traceback.format_exc() of the exception raised by the call `where`.
format_exc(where) == <<"Traceback (most recent call last): ", where>>

\* Mutant: the FAILED item carries a report key.
FailedItem_WithReportKey(i) ==
    [task_id |-> task_id[i],
     research_topic |-> research_topic[i],
     s3_report_key |-> s3_file_key(task_id[i]),
     status |-> "FAILED",
     error_message |-> format_exc(exc[i]),
     completed_at |-> utcnow_isoformat]

\* Lines 119-125: the item of a failed task.
FailedItem(i) ==
    [task_id |-> task_id[i],
     research_topic |-> research_topic[i],
     status |-> "FAILED",
     error_message |-> format_exc(exc[i]),
     completed_at |-> utcnow_isoformat]

\* Mutant: the response carries the stack trace.
FailureResponse_WithTrace(i) ==
    Return(500, PyDict(<<
        <<<<"error">>, PyStr(<<"An internal server error occurred. ",
                               "Check CloudWatch logs for details.">>)>>,
        <<<<"trace">>, PyStr(format_exc(exc[i]))>> >>))

\* Lines 127-130: the response of a failed task.
FailureResponse(i) ==
    Return(500, ErrorDict(<<"An internal server error occurred. ",
                            "Check CloudWatch logs for details.">>))

\* Lines 117-130: table.put_item of the FAILED item, then return 500.
RecordFailure(i) ==
    /\ pc[i] = "except"
    /\ Log(i, "dynamodb.put_item", TRUE)
    /\ table' = Put(table, task_id[i], FailedItem(i))
    /\ Finish(i, FailureResponse(i))
    /\ UNCHANGED <<environ, event, research_topic, task_id, final_report, exc,
                   s3, issued>>

\* put_item raises inside the except clause: the exception leaves
\* lambda_handler.
RecordFailureRaises(i) ==
    /\ pc[i] = "except"
    /\ Log(i, "dynamodb.put_item", FALSE)
    /\ Finish(i, Raise("dynamodb.put_item"))
    /\ UNCHANGED <<environ, event, research_topic, task_id, final_report, exc,
                   s3, table, issued>>

Next ==
    \E i \in Inv :
        \/ \E ev \in Events : Receive(i, ev)
        \/ BuildAgent(i)
        \/ BuildAgentRaises(i)
        \/ \E report \in Reports : RunAgent(i, report)
        \/ RunAgentRaises(i)
        \/ PutObject(i)
        \/ PutObjectRaises(i)
        \/ PutItemCompleted(i)
        \/ PutItemCompletedRaises(i)
        \/ RecordFailure(i)
        \/ RecordFailureRaises(i)

Spec == Init /\ [][Next]_vars

(***************************************************************************)
(* Vocabulary of the properties                                            *)
(***************************************************************************)
ConfigNames ==
    {"GOOGLE_API_KEY", "SERPAPI_API_KEY", "S3_BUCKET_NAME", "DYNAMODB_TABLE_NAME"}

ValidConfig == \A name \in ConfigNames : Truthy(environ[name])

Returned(i, code) == result[i].kind = "return" /\ result[i].statusCode = code

\* The response body, decoded by the caller.
ResponseDict(i) == json_loads(result[i].body).val
ResponseField(i, key) == DictGet(ResponseDict(i), <<key>>, PyNone)

HasTask(i) == task_id[i] # <<>>
ReportKey(i) == <<"reports/">> \o task_id[i] \o <<".txt">>
ObjectOf(i) == <<environ.S3_BUCKET_NAME.s, ReportKey(i)>>

CallsOf(i, op) == {j \in 1 .. Len(calls[i]) : calls[i][j].op = op}
OkCallsOf(i, op) == {j \in CallsOf(i, op) : calls[i][j].ok}
SomeCallFailed(i) == \E j \in 1 .. Len(calls[i]) : ~calls[i][j].ok

\* The external calls of an invocation that completes its task.
TryBlockOps == <<"initialize_agent", "agent.run", "s3.put_object", "dynamodb.put_item">>
Succeeded(i) == calls[i] = [j \in 1 .. 4 |-> Call(TryBlockOps[j], TRUE)]

\* Call j of invocation i was made in the try block: nothing before it raised.
InTryBlock(i, j) == \A h \in 1 .. (j - 1) : calls[i][h].ok
\* The calls follow the order of the try block, and after one that raised
\* comes at most the put_item of the except clause.
CallsInOrder(i) ==
    \A j \in 1 .. Len(calls[i]) :
        IF InTryBlock(i, j)
        THEN j <= 4 /\ calls[i][j].op = TryBlockOps[j]
        ELSE /\ j = Len(calls[i])
             /\ InTryBlock(i, j - 1)
             /\ calls[i][j].op = "dynamodb.put_item"

\* bytes.decode('utf-8') of one-, two- and three-byte sequences.
RECURSIVE decode_utf8(_)
decode_utf8(bs) ==
    IF bs = <<>> THEN <<>>
    ELSE IF bs[1] < 128 THEN <<bs[1]>> \o decode_utf8(SubSeq(bs, 2, Len(bs)))
    ELSE IF bs[1] < 224
    THEN <<(bs[1] - 192) * 64 + (bs[2] - 128)>> \o decode_utf8(SubSeq(bs, 3, Len(bs)))
    ELSE <<(bs[1] - 224) * 4096 + (bs[2] - 128) * 64 + (bs[3] - 128)>>
         \o decode_utf8(SubSeq(bs, 4, Len(bs)))

RequestBody(i) == DictGet(event[i], <<"body">>, Unset)
GenericError ==
    PyStr(<<"An internal server error occurred. ", "Check CloudWatch logs for details.">>)

(***************************************************************************)
(* C1                                                                      *)
(***************************************************************************)
\* C1: if any one of the four configuration values is unset or empty, every
\* invocation, whatever its body, returns 500 with an error that begins
\* "Server configuration error", and makes no agent call and no write to
\* either store.
C1_ConfigErrorStopsInvocation ==
    (\E name \in ConfigNames : ~Truthy(environ[name])) =>
        /\ s3 = <<>>
        /\ table = <<>>
        /\ \A i \in Inv :
            /\ calls[i] = <<>>
            /\ pc[i] \in {"idle", "done"}
            /\ pc[i] = "done" =>
                /\ Returned(i, 500)
                /\ ResponseField(i, "error").t = "str"
                /\ Head(ResponseField(i, "error").s) = "Server configuration error: "

\* An invocation with a usable topic is refused because only the table name
\* is empty.
C1_Witness ==
    \E i \in Inv :
        /\ pc[i] = "done"
        /\ environ.DYNAMODB_TABLE_NAME = PyStr(<<>>)
        /\ \A name \in ConfigNames \ {"DYNAMODB_TABLE_NAME"} : Truthy(environ[name])
        /\ RequestBody(i) \in TopicBodies
        /\ Returned(i, 500)

(***************************************************************************)
(* C2                                                                      *)
(***************************************************************************)
\* The requests C2 speaks of: no body, a null body, a body that decodes to
\* something other than an object, or an object without a non-empty topic.
LacksTopic(ev) ==
    LET b == DictGet(ev, <<"body">>, Unset) IN
    \/ b = Unset
    \/ b = PyNone
    \/ b \in NonObjectBodies
    \/ b \in NoTopicBodies

\* C2: with valid configuration, every request without a topic is answered
\* 400 with an error body, and nothing is written to either store.
C2_MissingTopicIs400 ==
    \A i \in Inv :
        (pc[i] = "done" /\ ValidConfig /\ LacksTopic(event[i])) =>
            /\ Returned(i, 400)
            /\ ResponseField(i, "error").t = "str"
            /\ OkCallsOf(i, "s3.put_object") = {}
            /\ OkCallsOf(i, "dynamodb.put_item") = {}

C4_SuccessWritesOneObjectOneRecord ==
    \A i \in Inv :
        Succeeded(i) =>
            /\ Cardinality(CallsOf(i, "s3.put_object")) = 1
            /\ Cardinality(CallsOf(i, "dynamodb.put_item")) = 1
            /\ ObjectOf(i) \in DOMAIN s3
            /\ decode_utf8(s3[ObjectOf(i)].Body) = final_report[i]
            /\ final_report[i] \in Reports
            /\ s3[ObjectOf(i)].ContentType = "text/plain"
            /\ task_id[i] \in DOMAIN table
            /\ LET item == table[task_id[i]] IN
                /\ item.task_id = task_id[i]
                /\ item.status = "COMPLETED"
                /\ "s3_report_key" \in DOMAIN item
                /\ item.s3_report_key = ReportKey(i)
                /\ item.research_topic
                     = DictGet(json_loads(RequestBody(i)).val, <<"topic">>, PyNone)
                /\ "completed_at" \in DOMAIN item
            /\ Returned(i, 200)
            /\ ResponseField(i, "task_id") = PyStr(task_id[i])
            /\ ResponseField(i, "s3_bucket") = environ.S3_BUCKET_NAME
            /\ ResponseField(i, "s3_key") = PyStr(ReportKey(i))

\* A task on coral bleaching completed with the three-byte report.
C4_Witness ==
    \E i \in Inv :
        /\ Succeeded(i)
        /\ Returned(i, 200)
        /\ final_report[i] = <<8364>>
        /\ research_topic[i] = PyStr(<<"coral bleaching">>)
        /\ table[task_id[i]].status = "COMPLETED"

(***************************************************************************)
(* C5                                                                      *)
(***************************************************************************)
\* The metadata record of a failed task: FAILED, with an error message and
\* without a report key.
FailedRecord(i) ==
    /\ task_id[i] \in DOMAIN table
    /\ table[task_id[i]].status = "FAILED"
    /\ "error_message" \in DOMAIN table[task_id[i]]
    /\ table[task_id[i]].error_message # <<>>
    /\ "s3_report_key" \notin DOMAIN table[task_id[i]]

\* C5 as stated: after any exception in agent construction, agent.run, the
\* object write or the COMPLETED record write, the invocation has written
\* exactly one metadata record, FAILED, with an error message and no report
\* key, and returns 500.
C5_EveryFailureIsRecorded ==
    \A i \in Inv :
        (pc[i] = "done" /\ HasTask(i) /\ exc[i] # "") =>
            /\ Cardinality(OkCallsOf(i, "dynamodb.put_item")) = 1
            /\ FailedRecord(i)
            /\ Returned(i, 500)

\* C5 amended: such an exception reaches the except clause, which calls
\* put_item once with the FAILED item. If that call succeeds, the FAILED
\* record is the only record written for the task and the response is 500;
\* if it raises, the exception leaves lambda_handler: no record, no response.
C5_FailureRecordedIfPutItemSucceeds ==
    \A i \in Inv :
        (HasTask(i) /\ SomeCallFailed(i)) =>
            /\ exc[i] # ""
            /\ pc[i] \in {"except", "done"}
            /\ pc[i] = "except" => task_id[i] \notin DOMAIN table
            /\ pc[i] = "done" =>
                LET last == calls[i][Len(calls[i])] IN
                /\ last.op = "dynamodb.put_item"
                /\ IF last.ok
                   THEN /\ Cardinality(OkCallsOf(i, "dynamodb.put_item")) = 1
                        /\ FailedRecord(i)
                        /\ table[task_id[i]].error_message = format_exc(exc[i])
                        /\ Returned(i, 500)
                   ELSE /\ OkCallsOf(i, "dynamodb.put_item") = {}
                        /\ task_id[i] \notin DOMAIN table
                        /\ result[i].kind = "raise"

\* agent.run raised and the failure was recorded.
C5_Witness ==
    \E i \in Inv :
        /\ pc[i] = "done"
        /\ exc[i] = "agent.run"
        /\ FailedRecord(i)
        /\ Returned(i, 500)

(***************************************************************************)
(* C6                                                                      *)
(***************************************************************************)
\* The successful put_item calls, of all invocations, for one task id.
RecordWrites(u) ==
    {<<i, j>> \in Inv \X (1 .. 5) :
        /\ task_id[i] = u
        /\ j \in OkCallsOf(i, "dynamodb.put_item")}

\* C6: each task id is written to the metadata store at most once, by at
\* most one successful put_item of one invocation, and the record written
\* stays: a COMPLETED record is never replaced by a FAILED one.
C6_RecordWrittenOnce ==
    /\ \A u \in UUIDs : Cardinality(RecordWrites(u)) <= 1
    /\ \A u \in DOMAIN table : Cardinality(RecordWrites(u)) = 1
    /\ \A i \in Inv :
        /\ Cardinality(OkCallsOf(i, "dynamodb.put_item")) <= 1
        /\ Succeeded(i) =>
            /\ task_id[i] \in DOMAIN table
            /\ table[task_id[i]].status = "COMPLETED"
    /\ \A u \in DOMAIN table :
        \E i \in Inv :
            /\ task_id[i] = u
            /\ table[u] = IF Succeeded(i) THEN CompletedItem(i) ELSE FailedItem(i)

\* One invocation completed its task while another one's COMPLETED write
\* failed and was recorded as FAILED.
C6_Witness ==
    \E i, k \in Inv :
        /\ Succeeded(i)
        /\ pc[k] = "done"
        /\ exc[k] = "dynamodb.put_item"
        /\ FailedRecord(k)
        /\ table[task_id[i]].status = "COMPLETED"

(***************************************************************************)
(* C7                                                                      *)
(***************************************************************************)
\* C7 as stated, for the response: the response to an internal error holds
\* no stack trace but does hold the task id when one had been generated.
C7_ErrorResponseNamesTask ==
    \A i \in Inv :
        (pc[i] = "done" /\ HasTask(i) /\ exc[i] # "" /\ result[i].kind = "return") =>
            /\ \A kv \in {ResponseDict(i).items[j] : j \in 1 .. Len(ResponseDict(i).items)} :
                   kv[2].s # format_exc(exc[i])
            /\ \E kv \in {ResponseDict(i).items[j] : j \in 1 .. Len(ResponseDict(i).items)} :
                   kv[2].s = task_id[i]

\* C7 amended: an exception raised in the second try block is caught by its
\* except clause and nothing is retried: no call follows a failed call
\* except the one put_item of the except clause. The 500 response returned
\* for it holds the fixed generic message and nothing else: neither the
\* stack trace nor the task id.
C7_ErrorResponseIsGeneric ==
    \A i \in Inv :
        /\ CallsInOrder(i)
        /\ \A j \in 1 .. Len(calls[i]) :
            (InTryBlock(i, j) /\ ~calls[i][j].ok) =>
                /\ exc[i] = calls[i][j].op
                /\ pc[i] \in {"except", "done"}
                /\ pc[i] = "done" <=> Len(calls[i]) = j + 1
        /\ exc[i] # "" => SomeCallFailed(i)
        /\ (pc[i] = "done" /\ exc[i] # "" /\ result[i].kind = "return") =>
            /\ Returned(i, 500)
            /\ ResponseDict(i) = PyDict(<< <<<<"error">>, GenericError>> >>)

\* The object write failed and the caller got the generic 500 response.
C7_Witness ==
    \E i \in Inv :
        /\ pc[i] = "done"
        /\ exc[i] = "s3.put_object"
        /\ Returned(i, 500)
        /\ ResponseField(i, "error") = GenericError

(***************************************************************************)
(* C8                                                                      *)
(***************************************************************************)
\* The successful put_object calls, of all invocations, under one task id.
ObjectWrites(u) ==
    {i \in Inv : task_id[i] = u /\ OkCallsOf(i, "s3.put_object") # {}}

\* C8: two invocations that pass validation, also with the same topic and
\* also concurrently, have distinct task ids, hence distinct object keys
\* and metadata keys, and each finds its own report and record in place.
C8_DistinctTasks ==
    /\ \A i, k \in Inv :
        (i # k /\ HasTask(i) /\ HasTask(k)) =>
            /\ task_id[i] # task_id[k]
            /\ ReportKey(i) # ReportKey(k)
    /\ \A u \in UUIDs : Cardinality(ObjectWrites(u)) <= 1
    /\ \A i \in Inv :
        /\ (HasTask(i) /\ OkCallsOf(i, "s3.put_object") # {}) =>
            /\ ObjectOf(i) \in DOMAIN s3
            /\ s3[ObjectOf(i)].Body = encode_utf8(final_report[i])
        /\ (HasTask(i) /\ OkCallsOf(i, "dynamodb.put_item") # {}) =>
            /\ task_id[i] \in DOMAIN table
            /\ table[task_id[i]].research_topic = research_topic[i]
            /\ table[task_id[i]].status
                 = IF exc[i] = "" THEN "COMPLETED" ELSE "FAILED"

\* Two invocations with the same topic both completed, with different
\* reports, and both objects are in the store.
C8_Witness ==
    \E i, k \in Inv :
        /\ i # k
        /\ Succeeded(i)
        /\ Succeeded(k)
        /\ research_topic[i] = research_topic[k]
        /\ final_report[i] # final_report[k]
        /\ task_id[i] # task_id[k]
        /\ {ObjectOf(i), ObjectOf(k)} \subseteq DOMAIN s3

(***************************************************************************)
(* C9                                                                      *)
(***************************************************************************)
\* C9: an invocation calls agent.run, then put_object, then put_item, then
\* responds. So a COMPLETED record always names a key under which the
\* object store holds the report of that task's agent, and a 200 response
\* is returned only once the COMPLETED record is written.
C9_CompletedRecordHasReport ==
    /\ \A i \in Inv :
        /\ CallsInOrder(i)
        /\ Returned(i, 200) =>
            /\ task_id[i] \in DOMAIN table
            /\ table[task_id[i]].status = "COMPLETED"
    /\ \A u \in DOMAIN table :
        table[u].status = "COMPLETED" =>
            /\ <<environ.S3_BUCKET_NAME.s, table[u].s3_report_key>> \in DOMAIN s3
            /\ \E i \in Inv :
                /\ task_id[i] = u
                /\ OkCallsOf(i, "agent.run") # {}
                /\ decode_utf8(s3[<<environ.S3_BUCKET_NAME.s, table[u].s3_report_key>>].Body)
                     = final_report[i]

\* A COMPLETED record exists while another invocation is still running.
C9_Witness ==
    \E i, k \in Inv :
        /\ Returned(i, 200)
        /\ table[task_id[i]].status = "COMPLETED"
        /\ pc[k] = "agent_ran"

(***************************************************************************)
(* C10                                                                     *)
(***************************************************************************)
\* C10 as stated: when an invocation ends in failure, the object store
\* holds no object under reports/<task_id>.txt.
C10_FailedTaskHasNoReport ==
    \A i \in Inv :
        (pc[i] = "done" /\ HasTask(i) /\ exc[i] # "") =>
            ObjectOf(i) \notin DOMAIN s3

\* C10 amended: when an invocation ends in failure, the object store holds
\* an object under reports/<task_id>.txt exactly if the failure came after
\* put_object had succeeded, that is if the COMPLETED put_item raised; a task
\* that failed in agent construction, agent.run or put_object has no object.
C10_ReportOnlyIfObjectWriteSucceeded ==
    \A i \in Inv :
        (HasTask(i) /\ exc[i] # "") =>
            (ObjectOf(i) \in DOMAIN s3 <=> exc[i] = "dynamodb.put_item")

\* The report was stored, the COMPLETED write raised, and the task is
\* recorded as FAILED with its report still in the object store.
C10_Witness ==
    \E i \in Inv :
        /\ pc[i] = "done"
        /\ exc[i] = "dynamodb.put_item"
        /\ FailedRecord(i)
        /\ ObjectOf(i) \in DOMAIN s3
        /\ decode_utf8(s3[ObjectOf(i)].Body) = final_report[i]

====
